---- MODULE Spec2Model ----
(***************************************************************************)
(* Model of src/packages/market-aggregator-portal/src/lib/data-aggregator.ts *)
(*                                                                         *)
(* ProductMatcher (normalizeText, levenshteinDistance, calculateSimilarity, *)
(* findMatches) and DataAggregator (registerSource, updateExchangeRates,   *)
(* convertToUSD, fetchAllSources, aggregateData, generateId).              *)
(*                                                                         *)
(* A JavaScript string is a sequence of one-character strings.  An array   *)
(* element that is an object reference is the 1-based position of the      *)
(* object in the array it came from.  An optional field is <<>> when it is *)
(* undefined and <<v>> when it holds v.  A JavaScript number that is a     *)
(* price is the exact rational <<numerator, denominator>>.                 *)
(***************************************************************************)
EXTENDS Integers, Sequences, FiniteSets, TLC

VARIABLES
  sources,        \* DataAggregator.sources: the registered adapters, in call order
  exchangeRates,  \* DataAggregator.exchangeRates: currency -> rate (a Map)
  call,           \* which method the caller invoked: "none", "fetchAllSources", "aggregateData"
  callState,      \* "idle", "awaiting" (suspended at await Promise.all), "returned", "threw"
  tasks,          \* the promises built by this.sources.map(...), one per adapter
  settleOrder,    \* positions of the tasks in the order their fetches settled
  rawData,        \* the value fetchAllSources() resolved with
  normalized,     \* the value aggregateData() resolved with
  products,       \* findMatches: its first argument
  threshold,      \* findMatches: its second argument
  i,              \* findMatches: the outer loop index (1-based)
  processed,      \* findMatches: the Set<number> of assigned positions
  matches,        \* findMatches: the Map<string, RawAssetData[]> in insertion order
  matcherPc,      \* findMatches: "idle", "loop", "returned"
  simName1,       \* calculateSimilarity: name1; generateId: name
  simName2,       \* calculateSimilarity: name2
  simDistance,    \* calculateSimilarity: the local distance, <<>> while not computed
  simResult,      \* the value calculateSimilarity returned, <<>> before it returns
  slug,           \* the value generateId returned, <<>> before it returns
  purePc,         \* "idle", "called", "returned"
  cache,          \* MarketAggregatorAPI.cache: cache key -> [data, expiry] (a Map)
  cacheTTL,       \* MarketAggregatorAPI.cacheTTL, in ms
  now,            \* Date.now(), in ms since the client was constructed
  requests,       \* the fetchWithCache calls suspended at await fetch(...)
  apiResponse     \* the ApiResponse returned last, with its call; <<>> before

vars == <<sources, exchangeRates, call, callState, tasks, settleOrder, rawData,
          normalized, products, threshold, i, processed, matches, matcherPc,
          simName1, simName2, simDistance, simResult, slug, purePc,
          cache, cacheTTL, now, requests, apiResponse>>

aggregatorVars == <<sources, exchangeRates, call, callState, tasks, settleOrder,
                    rawData, normalized>>

matcherVars == <<products, threshold, i, processed, matches, matcherPc>>

pureVars == <<simName1, simName2, simDistance, simResult, slug, purePc>>

apiVars == <<cache, cacheTTL, now, requests, apiResponse>>

----------------------------------------------------------------------------
(* Characters and strings                                                  *)

UpperCase == <<"A","B","C","D","E","F","G","H","I","J","K","L","M",
               "N","O","P","Q","R","S","T","U","V","W","X","Y","Z">>

LowerCase == <<"a","b","c","d","e","f","g","h","i","j","k","l","m",
               "n","o","p","q","r","s","t","u","v","w","x","y","z">>

Digits == {"0","1","2","3","4","5","6","7","8","9"}

WhiteSpace == {" "}

\* String.prototype.toLowerCase on one character
UpperSet == {UpperCase[k] : k \in 1..Len(UpperCase)}

LowerSet == {LowerCase[k] : k \in 1..Len(LowerCase)}

\* the lower-case letter of each upper-case letter
LowerMap ==
  [c \in UpperSet |-> LowerCase[CHOOSE k \in 1..Len(UpperCase) : UpperCase[k] = c]]

ToLowerChar(c) == IF c \in UpperSet THEN LowerMap[c] ELSE c

toLowerCase(text) == [k \in 1..Len(text) |-> ToLowerChar(text[k])]

\* the character class [a-z0-9]
IsAlnum(c) == c \in Digits \/ c \in LowerSet

\* String.prototype.trim
RECURSIVE trim(_)
trim(text) ==
  IF text = <<>> THEN text
  ELSE IF Head(text) \in WhiteSpace THEN trim(Tail(text))
  ELSE IF text[Len(text)] \in WhiteSpace THEN trim(SubSeq(text, 1, Len(text) - 1))
  ELSE text

\* the text is not lowercased before the characters are stripped
normalizeText_KeepCase(text) == trim(SelectSeq(text, IsAlnum))

\* ProductMatcher.normalizeText
normalizeText(text) == trim(SelectSeq(toLowerCase(text), IsAlnum))

Min2(a, b) == IF a <= b THEN a ELSE b

\* the length of the first string only
Max2_First(a, b) == a

\* Math.min in place of Math.max
Max2_Min(a, b) == IF a <= b THEN a ELSE b

Max2(a, b) == IF a >= b THEN a ELSE b

----------------------------------------------------------------------------
(* ProductMatcher.levenshteinDistance.  matrix[i] is a row indexed by      *)
(* j = 0..str1.length, held as a sequence whose element j + 1 is           *)
(* matrix[i][j].  The two for loops run their bodies for lo..hi in         *)
(* increasing order; the range is split in halves only to keep the         *)
(* evaluation stack shallow.                                               *)

\* the substitution term matrix[i - 1][j - 1] + 1 is left out
LevCell_NoSubstitution(str1, ch, prev, cur, j) ==
  IF ch = str1[j] THEN prev[j]
  ELSE Min2(cur[j] + 1, prev[j + 1] + 1)

\* the body of the inner loop: the value stored in matrix[i][j]
LevCell(str1, ch, prev, cur, j) ==
  IF ch = str1[j] THEN prev[j]
  ELSE Min2(prev[j] + 1, Min2(cur[j] + 1, prev[j + 1] + 1))

\* for (j = lo; j <= hi; j++) matrix[i][j] = ...
RECURSIVE LevFillRow(_, _, _, _, _, _)
LevFillRow(str1, ch, prev, cur, lo, hi) ==
  IF lo > hi \/ Len(cur) < 0 THEN cur
  ELSE IF lo = hi THEN Append(cur, LevCell(str1, ch, prev, cur, lo))
  ELSE LET mid == (lo + hi) \div 2
           left == LevFillRow(str1, ch, prev, cur, lo, mid)
       IN LevFillRow(str1, ch, prev, left, mid + 1, hi)

\* for (i = lo; i <= hi; i++) { matrix[i] = [i]; fill row i }
RECURSIVE LevRows(_, _, _, _, _)
LevRows(str1, str2, prev, lo, hi) ==
  IF lo > hi \/ Len(prev) < 0 THEN prev
  ELSE IF lo = hi THEN LevFillRow(str1, str2[lo], prev, <<lo>>, 1, Len(str1))
  ELSE LET mid == (lo + hi) \div 2
           upper == LevRows(str1, str2, prev, lo, mid)
       IN LevRows(str1, str2, upper, mid + 1, hi)

levenshteinDistance(str1, str2) ==
  LevRows(str1, str2, [j \in 1..(Len(str1) + 1) |-> j - 1], 1, Len(str2))[Len(str1) + 1]

\* Math.floor in place of Math.round
RoundPercent_Floor(maxLength, distance) ==
  (100 * (maxLength - distance)) \div maxLength

\* Math.round(((maxLength - distance) / maxLength) * 100): the nearest
\* integer, a tie going up.  The double-precision product equals the exact
\* quotient's rounding for every maxLength below 40 and for every pair
\* (maxLength, distance) the name sets below produce.
RoundPercent(maxLength, distance) ==
  (200 * (maxLength - distance) + maxLength) \div (2 * maxLength)

\* the test for maxLength = 0 made before the test for equality
calculateSimilarity_EmptyFirst(name1, name2) ==
  LET norm1 == normalizeText(name1)
      norm2 == normalizeText(name2)
      maxLength == Max2(Len(norm1), Len(norm2))
  IN IF maxLength = 0 THEN 0
     ELSE IF norm1 = norm2 THEN 100
     ELSE RoundPercent(maxLength, levenshteinDistance(norm1, norm2))

\* ProductMatcher.calculateSimilarity
calculateSimilarity(name1, name2) ==
  LET norm1 == normalizeText(name1)
      norm2 == normalizeText(name2)
  IN IF norm1 = norm2 THEN 100
     ELSE LET distance == levenshteinDistance(norm1, norm2)
              maxLength == Max2(Len(norm1), Len(norm2))
          IN IF maxLength = 0 THEN 0
             ELSE RoundPercent(maxLength, distance)

----------------------------------------------------------------------------
(* A JavaScript Map in insertion order: a sequence of [key, value] entries *)
(* with distinct keys.                                                     *)

MapHas(map, key) == \E k \in 1..Len(map) : map[k].key = key

\* Map.prototype.set: a new key is appended; an existing key keeps its
\* place in the iteration order and has its value replaced
MapSet(map, key, value) ==
  IF MapHas(map, key)
  THEN [k \in 1..Len(map) |-> IF map[k].key = key
                              THEN [key |-> key, value |-> value]
                              ELSE map[k]]
  ELSE Append(map, [key |-> key, value |-> value])

----------------------------------------------------------------------------
(* ProductMatcher.findMatches.  The loop state is                          *)
(* [i, processed, matches]; a group holds the positions of its records in  *)
(* products.                                                               *)

\* the threshold read as a fraction of 1 and scaled to the percentage
MeetsThreshold_Fraction(similarity, thr) == similarity >= thr * 100

\* a strict comparison in place of >=
MeetsThreshold_Strict(similarity, thr) == similarity > thr

\* the test on line 128
MeetsThreshold(similarity, thr) == similarity >= thr

\* the candidate compared with the newest member of the group, not the seed
SimilarityToGroup_LastMember(prods, seed, group, j) ==
  calculateSimilarity(prods[group[Len(group)]].name, prods[j].name)

\* what the inner loop compares the candidate products[j] with: the seed
SimilarityToGroup(prods, seed, group, j) ==
  calculateSimilarity(prods[seed].name, prods[j].name)

\* the record put into the group is not marked as processed
RECURSIVE ScanLater_NoMark(_, _, _, _, _)
ScanLater_NoMark(prods, thr, seed, acc, j) ==
  IF j > Len(prods) THEN acc
  ELSE IF j \in acc.processed THEN ScanLater_NoMark(prods, thr, seed, acc, j + 1)
  ELSE IF MeetsThreshold(SimilarityToGroup(prods, seed, acc.group, j), thr)
       THEN ScanLater_NoMark(prods, thr, seed,
                             [group |-> Append(acc.group, j),
                              processed |-> acc.processed], j + 1)
       ELSE ScanLater_NoMark(prods, thr, seed, acc, j + 1)

\* the inner loop, for (j = lo; j < products.length; j++), over
\* [group, processed]
RECURSIVE ScanLater(_, _, _, _, _)
ScanLater(prods, thr, seed, acc, j) ==
  IF j > Len(prods) THEN acc
  ELSE IF j \in acc.processed THEN ScanLater(prods, thr, seed, acc, j + 1)
  ELSE IF MeetsThreshold(SimilarityToGroup(prods, seed, acc.group, j), thr)
       THEN ScanLater(prods, thr, seed,
                      [group |-> Append(acc.group, j),
                       processed |-> acc.processed \cup {j}], j + 1)
       ELSE ScanLater(prods, thr, seed, acc, j + 1)

\* the inner loop starts at i + 2
MatchIteration_SkipNext(prods, thr, st) ==
  IF st.i \in st.processed
  THEN [st EXCEPT !.i = st.i + 1]
  ELSE LET scanned == ScanLater(prods, thr, st.i,
                                [group |-> <<st.i>>,
                                 processed |-> st.processed \cup {st.i}],
                                st.i + 2)
           canonicalName == prods[st.i].name
       IN [i |-> st.i + 1,
           processed |-> scanned.processed,
           matches |-> MapSet(st.matches, canonicalName, scanned.group)]

\* one iteration of the outer loop, lines 115-136
MatchIteration(prods, thr, st) ==
  IF st.i \in st.processed
  THEN [st EXCEPT !.i = st.i + 1]
  ELSE LET scanned == ScanLater(prods, thr, st.i,
                                [group |-> <<st.i>>,
                                 processed |-> st.processed \cup {st.i}],
                                st.i + 1)
           canonicalName == prods[st.i].name
       IN [i |-> st.i + 1,
           processed |-> scanned.processed,
           matches |-> MapSet(st.matches, canonicalName, scanned.group)]

MatchStart == [i |-> 1, processed |-> {}, matches |-> <<>>]

RECURSIVE MatchLoop(_, _, _)
MatchLoop(prods, thr, st) ==
  IF st.i > Len(prods) THEN st.matches
  ELSE MatchLoop(prods, thr, MatchIteration(prods, thr, st))

\* findMatches(products, threshold): the returned Map
findMatches(prods, thr) == MatchLoop(prods, thr, MatchStart)

\* the default value of the threshold parameter
DefaultThreshold == 80

----------------------------------------------------------------------------
(* RawAssetData.  externalId and metadata are never read by the code and   *)
(* are left out.                                                           *)

RawAsset(src, name, symbol, price, currency, volume, marketCap) ==
  [source |-> src, name |-> name, symbol |-> symbol, price |-> price,
   currency |-> currency, volume |-> volume, marketCap |-> marketCap]

SeqsUpTo(S, n) == UNION {[1..k -> S] : k \in 0..n}

----------------------------------------------------------------------------
(* DataAggregator: the state after construction, lines 147-153             *)

AggregatorInit ==
  /\ sources = <<>>
  /\ exchangeRates = ("USD" :> 1)
  /\ call = "none"
  /\ callState = "idle"
  /\ tasks = <<>>
  /\ settleOrder = <<>>
  /\ rawData = <<>>
  /\ normalized = <<>>

----------------------------------------------------------------------------
(* Exact arithmetic on prices: <<n, d>> is n / d in lowest terms, d > 0    *)

RECURSIVE GCD(_, _)
GCD(a, b) == IF b = 0 THEN a ELSE GCD(b, a % b)

Rat(n, d) == LET g == GCD(n, d) IN IF g = 0 THEN <<0, 1>> ELSE <<n \div g, d \div g>>

RatAdd(x, y) == Rat(x[1] * y[2] + y[1] * x[2], x[2] * y[2])

RatDivInt(x, n) == Rat(x[1], x[2] * n)

\* prices.reduce((a, b) => a + b, 0)
RECURSIVE RatSum(_)
RatSum(xs) == IF xs = <<>> THEN Rat(0, 1) ELSE RatAdd(Head(xs), RatSum(Tail(xs)))

\* the first item in place of the sum
IntSum_First(xs) == IF xs = <<>> THEN 0 ELSE Head(xs)

\* reduce((sum, item) => sum + item, 0) over integers
RECURSIVE IntSum(_)
IntSum(xs) == IF xs = <<>> THEN 0 ELSE Head(xs) + IntSum(Tail(xs))

\* (value || 0) on an optional number
OrZero(opt) == IF opt = <<>> THEN 0 ELSE opt[1]

\* (value || '') on an optional string
OrEmpty(opt) == IF opt = <<>> THEN "" ELSE opt[1]

\* the source of every member, without the Set
Unique_Keep(xs) == xs

\* [...new Set(xs)]: the distinct elements in order of first occurrence
RECURSIVE Unique(_)
Unique(xs) ==
  IF xs = <<>> THEN <<>>
  ELSE LET front == Unique(SubSeq(xs, 1, Len(xs) - 1))
           last == xs[Len(xs)]
       IN IF \E k \in 1..Len(front) : front[k] = last THEN front
          ELSE Append(front, last)

----------------------------------------------------------------------------
(* DataAggregator.convertToUSD and DataAggregator.generateId               *)

\* this.exchangeRates.get(currency) || 1
RateOf(rates, currency) ==
  IF currency \in DOMAIN rates /\ rates[currency] # 0 THEN rates[currency] ELSE 1

convertToUSD(price, currency, rates) == Rat(price, RateOf(rates, currency))

\* .replace(/[^a-z0-9]/g, '-')
ReplaceNonAlnum(text) ==
  [k \in 1..Len(text) |-> IF IsAlnum(text[k]) THEN text[k] ELSE "-"]

\* .replace(/-+/g, '-')
RECURSIVE CollapseDashes(_)
CollapseDashes(text) ==
  IF Len(text) <= 1 THEN text
  ELSE LET front == CollapseDashes(SubSeq(text, 1, Len(text) - 1))
           last == text[Len(text)]
       IN IF last = "-" /\ front[Len(front)] = "-" THEN front
          ELSE Append(front, last)

\* the replacement without the g flag: only the first match is removed
StripEdgeDashes_FirstOnly(text) ==
  IF text # <<>> /\ Head(text) = "-" THEN Tail(text)
  ELSE IF text # <<>> /\ text[Len(text)] = "-" THEN SubSeq(text, 1, Len(text) - 1)
  ELSE text

\* .replace(/^-|-$/g, '')
StripEdgeDashes(text) ==
  LET noLead == IF text # <<>> /\ Head(text) = "-" THEN Tail(text) ELSE text
  IN IF noLead # <<>> /\ noLead[Len(noLead)] = "-"
     THEN SubSeq(noLead, 1, Len(noLead) - 1)
     ELSE noLead

generateId(name) ==
  StripEdgeDashes(CollapseDashes(ReplaceNonAlnum(toLowerCase(name))))

----------------------------------------------------------------------------
(* DataAggregator.aggregateData after the await: lines 204-243.            *)
(* lastUpdated, the wall-clock time of the fold, is left out.              *)

\* the body of matches.forEach: the NormalizedAsset of one group
NormalizeGroup(entry, raw, rates) ==
  LET canonicalName == entry.key
      group == [m \in 1..Len(entry.value) |-> raw[entry.value[m]]]
      prices == [m \in 1..Len(group) |->
                   convertToUSD(group[m].price, group[m].currency, rates)]
      avgPrice == RatDivInt(RatSum(prices), Len(prices))
      totalVolume == IntSum([m \in 1..Len(group) |-> OrZero(group[m].volume)])
      totalMarketCap == IntSum([m \in 1..Len(group) |-> OrZero(group[m].marketCap)])
      srcs == Unique([m \in 1..Len(group) |-> group[m].source])
  IN [id |-> generateId(canonicalName),
      name |-> canonicalName,
      symbol |-> OrEmpty(group[1].symbol),
      price |-> avgPrice,
      change24h |-> 0,
      volume |-> totalVolume,
      marketCap |-> totalMarketCap,
      sources |-> srcs]

\* one asset per record, without the grouping
FoldMatches_PerRecord(raw, rates) ==
  [k \in 1..Len(raw) |->
     NormalizeGroup([key |-> raw[k].name, value |-> <<k>>], raw, rates)]

FoldMatches(raw, rates) ==
  LET found == findMatches(raw, DefaultThreshold)
  IN [k \in 1..Len(found) |-> NormalizeGroup(found[k], raw, rates)]

----------------------------------------------------------------------------
(* DataAggregator.fetchAllSources: the promises.  A task is the promise of *)
(* one call of the async arrow function of line 183:                       *)
(*   fetch  the state of source.fetchData(): "pending", "resolved",        *)
(*          "rejected"; data is the value it resolved with                 *)
(*   state  the state of the arrow function's promise: "pending",          *)
(*          "fulfilled", "rejected"; value is the value it fulfilled with  *)
(* The console.error of line 187 is not kept: fetch = "rejected" records   *)
(* that the catch block ran.                                               *)

NewTask(source) ==
  [source |-> source, fetch |-> "pending", data |-> <<>>,
   state |-> "pending", value |-> <<>>]

\* line 185: return await source.fetchData()
ReturnFetched(task, recs) ==
  [task EXCEPT !.fetch = "resolved", !.data = recs,
               !.state = "fulfilled", !.value = recs]

\* the catch block rethrows
CatchFetchError_Rethrow(task) ==
  [task EXCEPT !.fetch = "rejected", !.state = "rejected"]

\* the catch block returns a placeholder record in place of []
CatchFetchError_Placeholder(task) ==
  [task EXCEPT !.fetch = "rejected", !.state = "fulfilled",
               !.value = <<RawAsset(task.source, <<"n","a">>, <<>>, 0, "USD", <<>>, <<>>)>>]

\* lines 186-189: catch (error) { console.error(...); return []; }
CatchFetchError(task) ==
  [task EXCEPT !.fetch = "rejected", !.state = "fulfilled", !.value = <<>>]

\* a failed fetch cancels the join: it never settles
PromiseAll_Cancelled(ts, order) ==
  IF \E k \in 1..Len(ts) : ts[k].state = "rejected" \/ ts[k].fetch = "rejected"
  THEN [state |-> "pending", value |-> <<>>]
  ELSE IF \A k \in 1..Len(ts) : ts[k].state = "fulfilled"
  THEN [state |-> "fulfilled", value |-> [k \in 1..Len(ts) |-> ts[k].value]]
  ELSE [state |-> "pending", value |-> <<>>]

\* the values in the order the tasks settled
PromiseAll_CompletionOrder(ts, order) ==
  IF \E k \in 1..Len(ts) : ts[k].state = "rejected"
  THEN [state |-> "rejected", value |-> <<>>]
  ELSE IF \A k \in 1..Len(ts) : ts[k].state = "fulfilled"
  THEN [state |-> "fulfilled", value |-> [n \in 1..Len(order) |-> ts[order[n]].value]]
  ELSE [state |-> "pending", value |-> <<>>]

\* fulfilled as soon as one task has settled
PromiseAll_FirstSettled(ts, order) ==
  IF \E k \in 1..Len(ts) : ts[k].state = "rejected"
  THEN [state |-> "rejected", value |-> <<>>]
  ELSE IF ts = <<>> \/ \E k \in 1..Len(ts) : ts[k].state = "fulfilled"
  THEN [state |-> "fulfilled", value |-> [k \in 1..Len(ts) |-> ts[k].value]]
  ELSE [state |-> "pending", value |-> <<>>]

\* line 192: Promise.all(promises).  It rejects as soon as one promise has
\* rejected and fulfils once all have fulfilled, with their values in the
\* order of the promises; the order of completion is not consulted.
PromiseAll(ts, order) ==
  IF \E k \in 1..Len(ts) : ts[k].state = "rejected"
  THEN [state |-> "rejected", value |-> <<>>]
  ELSE IF \A k \in 1..Len(ts) : ts[k].state = "fulfilled"
  THEN [state |-> "fulfilled", value |-> [k \in 1..Len(ts) |-> ts[k].value]]
  ELSE [state |-> "pending", value |-> <<>>]

\* line 193: results.flat()
RECURSIVE Flat(_)
Flat(results) ==
  IF results = <<>> THEN <<>> ELSE Head(results) \o Flat(Tail(results))

----------------------------------------------------------------------------
(* The aggregator and its environment.  One fetchAllSources() or           *)
(* aggregateData() call is in flight at a time; registerSource and         *)
(* updateExchangeRates may run at any time, also while the call awaits.    *)

\* the DataSource objects, named by their name field
Adapters == {"feedA", "feedB"}

FeedRecords(a) ==
  IF a = "feedA"
  THEN {RawAsset("feedA", <<"B","i","t","c","o","i","n">>, <<"BTC">>, 100, "USD", <<10>>, <<500>>),
        RawAsset("feedA", <<"a","b">>, <<>>, 30, "EUR", <<>>, <<>>)}
  ELSE {RawAsset("feedB", <<"B","i","t","C","o","i","n">>, <<>>, 200, "EUR", <<20>>, <<>>),
        RawAsset("feedB", <<"B","i","t","c","o","i","n"," ","C","a","s","h">>,
                 <<"BCH">>, 50, "GBP", <<0>>, <<700>>)}

\* what one fetchData() call of adapter a may resolve with
Emissions(a) ==
  {<<>>} \cup {<<r>> : r \in FeedRecords(a)}
         \cup {pair \in [1..2 -> FeedRecords(a)] : pair[1] # pair[2]}

\* the mappings updateExchangeRates is called with
RateUpdates == {("EUR" :> 2), ("USD" :> 2 @@ "EUR" :> 0)}

MaxSources == 2

MatcherIdle ==
  /\ products = <<>>
  /\ threshold = DefaultThreshold
  /\ i = MatchStart.i
  /\ processed = MatchStart.processed
  /\ matches = MatchStart.matches
  /\ matcherPc = "idle"

PureIdle ==
  /\ simName1 = <<>>
  /\ simName2 = <<>>
  /\ simDistance = <<>>
  /\ simResult = <<>>
  /\ slug = <<>>
  /\ purePc = "idle"

\* lines 380-386: the client as constructed
ApiIdle ==
  /\ cache = <<>>
  /\ cacheTTL = 5 * 60 * 1000
  /\ now = 0
  /\ requests = <<>>
  /\ apiResponse = <<>>

Init == AggregatorInit /\ MatcherIdle /\ PureIdle /\ ApiIdle

\* the running call iterates the live list: an adapter registered while the
\* call awaits is fetched by it
RegisterSource_JoinsCycle(a) ==
  /\ Len(sources) < MaxSources
  /\ sources' = Append(sources, a)
  /\ tasks' = IF callState = "awaiting" THEN Append(tasks, NewTask(a)) ELSE tasks
  /\ UNCHANGED <<exchangeRates, call, callState, settleOrder, rawData, normalized>>
  /\ UNCHANGED matcherVars
  /\ UNCHANGED pureVars
  /\ UNCHANGED apiVars

\* an adapter already in the list is not added again
RegisterSource_Unique(a) ==
  /\ Len(sources) < MaxSources
  /\ sources' = IF \E k \in 1..Len(sources) : sources[k] = a
                THEN sources ELSE Append(sources, a)
  /\ UNCHANGED <<exchangeRates, call, callState, tasks, settleOrder, rawData, normalized>>
  /\ UNCHANGED matcherVars
  /\ UNCHANGED pureVars
  /\ UNCHANGED apiVars

\* registerSource(source), lines 158-160
RegisterSource(a) ==
  /\ Len(sources) < MaxSources
  /\ sources' = Append(sources, a)
  /\ UNCHANGED <<exchangeRates, call, callState, tasks, settleOrder, rawData, normalized>>
  /\ UNCHANGED matcherVars
  /\ UNCHANGED pureVars
  /\ UNCHANGED apiVars

\* the table is replaced by the mapping, not merged with it
UpdateExchangeRates_Replace(rates) ==
  /\ exchangeRates' = rates
  /\ UNCHANGED <<sources, call, callState, tasks, settleOrder, rawData, normalized>>
  /\ UNCHANGED matcherVars
  /\ UNCHANGED pureVars
  /\ UNCHANGED apiVars

\* updateExchangeRates(rates), lines 165-169
UpdateExchangeRates(rates) ==
  /\ exchangeRates' = (rates @@ exchangeRates)
  /\ UNCHANGED <<sources, call, callState, tasks, settleOrder, rawData, normalized>>
  /\ UNCHANGED matcherVars
  /\ UNCHANGED pureVars
  /\ UNCHANGED apiVars

\* the call consumes the registry: the adapters it fetched are dropped
StartFetches_DrainsRegistry(method) ==
  /\ callState # "awaiting"
  /\ call' = method
  /\ callState' = "awaiting"
  /\ tasks' = [k \in 1..Len(sources) |-> NewTask(sources[k])]
  /\ settleOrder' = <<>>
  /\ rawData' = <<>>
  /\ normalized' = <<>>
  /\ sources' = <<>>
  /\ UNCHANGED exchangeRates
  /\ UNCHANGED matcherVars
  /\ UNCHANGED pureVars
  /\ UNCHANGED apiVars

\* lines 183-192 up to the await: every adapter's fetchData() is invoked
StartFetches(method) ==
  /\ callState # "awaiting"
  /\ call' = method
  /\ callState' = "awaiting"
  /\ tasks' = [k \in 1..Len(sources) |-> NewTask(sources[k])]
  /\ settleOrder' = <<>>
  /\ rawData' = <<>>
  /\ normalized' = <<>>
  /\ UNCHANGED <<sources, exchangeRates>>
  /\ UNCHANGED matcherVars
  /\ UNCHANGED pureVars
  /\ UNCHANGED apiVars

\* a caller invokes fetchAllSources(), line 182
CallFetchAllSources == StartFetches("fetchAllSources")

\* a caller invokes aggregateData(), lines 199-201
CallAggregateData == StartFetches("aggregateData")

\* the fetchData() promise of task k resolves with recs
FetchResolve(k, recs) ==
  /\ callState = "awaiting"
  /\ tasks[k].fetch = "pending"
  /\ tasks' = [tasks EXCEPT ![k] = ReturnFetched(tasks[k], recs)]
  /\ settleOrder' = Append(settleOrder, k)
  /\ UNCHANGED <<sources, exchangeRates, call, callState, rawData, normalized>>
  /\ UNCHANGED matcherVars
  /\ UNCHANGED pureVars
  /\ UNCHANGED apiVars

\* the fetchData() promise of task k rejects (or fetchData throws)
FetchReject(k) ==
  /\ callState = "awaiting"
  /\ tasks[k].fetch = "pending"
  /\ tasks' = [tasks EXCEPT ![k] = CatchFetchError(tasks[k])]
  /\ settleOrder' = Append(settleOrder, k)
  /\ UNCHANGED <<sources, exchangeRates, call, callState, rawData, normalized>>
  /\ UNCHANGED matcherVars
  /\ UNCHANGED pureVars
  /\ UNCHANGED apiVars

\* Promise.all settles and the awaiting call runs to its end: lines 192-193
\* and, for aggregateData, lines 201-243
Resume ==
  /\ callState = "awaiting"
  /\ LET all == PromiseAll(tasks, settleOrder)
     IN /\ all.state # "pending"
        /\ IF all.state = "rejected"
           THEN /\ callState' = "threw"
                /\ UNCHANGED <<rawData, normalized>>
           ELSE /\ callState' = "returned"
                /\ rawData' = Flat(all.value)
                /\ normalized' = IF call = "aggregateData"
                                 THEN FoldMatches(Flat(all.value), exchangeRates)
                                 ELSE <<>>
  /\ UNCHANGED <<sources, exchangeRates, call, tasks, settleOrder>>
  /\ UNCHANGED matcherVars
  /\ UNCHANGED pureVars
  /\ UNCHANGED apiVars

Next ==
  \/ \E a \in Adapters : RegisterSource(a)
  \/ \E rates \in RateUpdates : UpdateExchangeRates(rates)
  \/ CallFetchAllSources
  \/ CallAggregateData
  \/ \E k \in 1..Len(tasks) : \E recs \in Emissions(tasks[k].source) : FetchResolve(k, recs)
  \/ \E k \in 1..Len(tasks) : FetchReject(k)
  \/ Resume

Spec == Init /\ [][Next]_vars

\* a step of Resume, told by its guard and by what it does to callState: no
\* other step takes callState out of "awaiting"
ResumeRuns ==
  /\ callState = "awaiting"
  /\ PromiseAll(tasks, settleOrder).state # "pending"
  /\ callState' \in {"returned", "threw"}

\* The continuation of an await runs once the awaited promise has settled:
\* the job queue of the event loop is served.  Whether a fetch settles is
\* up to its adapter; no fairness is assumed of it.
SpecLive == Spec /\ WF_callState(ResumeRuns)

----------------------------------------------------------------------------
(* findMatches applied to bounded inputs, one outer-loop iteration per     *)
(* step                                                                    *)

Bitcoin == <<"B","i","t","c","o","i","n">>

BitcoinCash == <<"B","i","t","c","o","i","n"," ","C","a","s","h">>

BitCoin == <<"B","i","t","C","o","i","n">>

NameAA == <<"a","a">>

NameAB == <<"a","b">>

NameBB == <<"b","b">>

\* names without a character of [a-z0-9]
NameBang == <<"!">>

NameDashes == <<"-","-">>

MatchNames ==
  {Bitcoin, BitcoinCash, BitCoin, NameAA, NameAB, NameBB, NameBang, NameDashes}

MatchRecord(name) == RawAsset("Binance", name, <<>>, 1, "USD", <<>>, <<>>)

Thresholds == {50, DefaultThreshold, 85, 100, 101}

MaxProducts == 3

MatchInit ==
  /\ AggregatorInit
  /\ ApiIdle
  /\ PureIdle
  /\ products \in SeqsUpTo({MatchRecord(n) : n \in MatchNames}, MaxProducts)
  /\ threshold \in Thresholds
  /\ i = MatchStart.i
  /\ processed = MatchStart.processed
  /\ matches = MatchStart.matches
  /\ matcherPc = "loop"

MatchState == [i |-> i, processed |-> processed, matches |-> matches]

\* lines 114-115: products[i] is already assigned, continue
MatchContinue ==
  /\ matcherPc = "loop"
  /\ i <= Len(products)
  /\ i \in processed
  /\ LET st == MatchIteration(products, threshold, MatchState)
     IN /\ i' = st.i
        /\ processed' = st.processed
        /\ matches' = st.matches
  /\ UNCHANGED <<products, threshold, matcherPc>>
  /\ UNCHANGED aggregatorVars
  /\ UNCHANGED pureVars
  /\ UNCHANGED apiVars

\* lines 117-136: products[i] seeds a new group
MatchOpenGroup ==
  /\ matcherPc = "loop"
  /\ i <= Len(products)
  /\ i \notin processed
  /\ LET st == MatchIteration(products, threshold, MatchState)
     IN /\ i' = st.i
        /\ processed' = st.processed
        /\ matches' = st.matches
  /\ UNCHANGED <<products, threshold, matcherPc>>
  /\ UNCHANGED aggregatorVars
  /\ UNCHANGED pureVars
  /\ UNCHANGED apiVars

\* line 139: return matches
MatchReturn ==
  /\ matcherPc = "loop"
  /\ i > Len(products)
  /\ matcherPc' = "returned"
  /\ UNCHANGED <<products, threshold, i, processed, matches>>
  /\ UNCHANGED aggregatorVars
  /\ UNCHANGED pureVars
  /\ UNCHANGED apiVars

MatchNext == MatchContinue \/ MatchOpenGroup \/ MatchReturn

SpecMatch == MatchInit /\ [][MatchNext]_vars

----------------------------------------------------------------------------
(* findMatches at threshold 100 on names long enough for the rounding to   *)
(* reach 100                                                               *)

LongLen == 201

LongA == [k \in 1..LongLen |-> "a"]

LongB == [k \in 1..LongLen |-> IF k = LongLen THEN "b" ELSE "a"]

ExactNames == MatchNames \cup {LongA, LongB}

MaxExactProducts == 2

ExactInit ==
  /\ AggregatorInit
  /\ ApiIdle
  /\ PureIdle
  /\ products \in SeqsUpTo({MatchRecord(n) : n \in ExactNames}, MaxExactProducts)
  /\ threshold = 100
  /\ i = MatchStart.i
  /\ processed = MatchStart.processed
  /\ matches = MatchStart.matches
  /\ matcherPc = "loop"

SpecExact == ExactInit /\ [][MatchNext]_vars

----------------------------------------------------------------------------
(* calculateSimilarity applied to every pair of bounded names              *)

SimAlphabet == {"a", "A", "b", " "}

MaxNameLen == 3

SimNames == SeqsUpTo(SimAlphabet, MaxNameLen)

SimInit ==
  /\ AggregatorInit
  /\ ApiIdle
  /\ MatcherIdle
  /\ simName1 \in SimNames
  /\ simName2 \in SimNames
  /\ simDistance = <<>>
  /\ simResult = <<>>
  /\ slug = <<>>
  /\ purePc = "called"

\* calculateSimilarity(name1, name2), lines 85-102
CallSimilarity ==
  /\ purePc = "called"
  /\ LET norm1 == normalizeText(simName1)
         norm2 == normalizeText(simName2)
     IN simDistance' = IF norm1 = norm2 THEN <<>>
                    ELSE <<levenshteinDistance(norm1, norm2)>>
  /\ simResult' = <<calculateSimilarity(simName1, simName2)>>
  /\ purePc' = "returned"
  /\ UNCHANGED <<simName1, simName2, slug>>
  /\ UNCHANGED aggregatorVars
  /\ UNCHANGED matcherVars
  /\ UNCHANGED apiVars

SimNext == CallSimilarity

SpecSim == SimInit /\ [][SimNext]_vars

----------------------------------------------------------------------------
(* generateId applied to bounded names                                     *)

SlugAlphabet == {"a", "B", "1", " ", "-"}

MaxSlugLen == 3

BinanceCoin == <<"B","i","n","a","n","c","e"," ","C","o","i","n"," ","(","B","N","B",")">>

SlugNames == SeqsUpTo(SlugAlphabet, MaxSlugLen) \cup {BinanceCoin}

SlugInit ==
  /\ AggregatorInit
  /\ ApiIdle
  /\ MatcherIdle
  /\ simName1 \in SlugNames
  /\ simName2 = <<>>
  /\ simDistance = <<>>
  /\ simResult = <<>>
  /\ slug = <<>>
  /\ purePc = "called"

\* generateId(name1), lines 249-255
CallGenerateId ==
  /\ purePc = "called"
  /\ slug' = <<generateId(simName1)>>
  /\ purePc' = "returned"
  /\ UNCHANGED <<simName1, simName2, simDistance, simResult>>
  /\ UNCHANGED aggregatorVars
  /\ UNCHANGED matcherVars
  /\ UNCHANGED apiVars

SlugNext == CallGenerateId

SpecSlug == SlugInit /\ [][SlugNext]_vars

----------------------------------------------------------------------------
(* The API client, MarketAggregatorAPI.  A call of fetchWithCache either   *)
(* returns from the cache at once or suspends at await fetch(...); its     *)
(* response arrives in a later step.  Time passes between the steps.       *)

\* the ids of assets and alerts the callers pass
ApiIds == {"a1"}

\* interval: '1h' | '1d' | '1w' | '1m'
Intervals == {"1h"}

\* the alerts createAlert is called with
Alerts == {[assetId |-> "a1", type |-> "price_above", threshold |-> 1]}

\* what response.json() resolves with
Payloads == {"d1"}

\* the milliseconds setCacheTTL is called with
TTLs == {0, 5 * 60 * 1000}

\* the clock is read in steps of five minutes
ClockStep == 5 * 60 * 1000

MaxTicks == 1

MaxInFlight == 1

\* options omitted: undefined
NoOptions == <<>>

\* lines 485-488: { method: 'POST', body: JSON.stringify(alert) }
PostOptions(alert) ==
  <<[method |-> "POST",
     body |-> <<"{", "assetId", alert.assetId, "type", alert.type,
                "threshold", ToString(alert.threshold), "}">>]>>

\* line 511: { method: 'DELETE' }
DeleteOptions == <<[method |-> "DELETE", body |-> <<>>]>>

\* JSON.stringify(options) inside the template of line 396: undefined is
\* rendered as the text undefined, an object by its members
Stringify(options) ==
  IF options = <<>> THEN <<"undefined">>
  ELSE <<"{", "method", options[1].method>>
       \o (IF options[1].body = <<>> THEN <<>> ELSE <<"body">> \o options[1].body)
       \o <<"}">>

\* line 396: `${endpoint}:${JSON.stringify(options)}`
CacheKey(endpoint, options) == endpoint \o <<":">> \o Stringify(options)

\* lines 391-413: the call up to the cache hit or the await
FetchWithCache(endpoint, options, skipCache) ==
  LET cacheKey == CacheKey(endpoint, options)
      hit == /\ ~ skipCache
             /\ cacheKey \in DOMAIN cache
             /\ cache[cacheKey].expiry > now
  IN /\ IF hit
        THEN /\ apiResponse' = [skipCache |-> skipCache, cacheKey |-> cacheKey,
                                data |-> <<cache[cacheKey].data>>,
                                success |-> TRUE, cached |-> <<TRUE>>]
             /\ UNCHANGED requests
        ELSE /\ Len(requests) < MaxInFlight
             /\ requests' = Append(requests, [skipCache |-> skipCache,
                                              cacheKey |-> cacheKey])
             /\ UNCHANGED apiResponse
     /\ UNCHANGED <<cache, cacheTTL, now>>
     /\ UNCHANGED aggregatorVars
     /\ UNCHANGED matcherVars
     /\ UNCHANGED pureVars

\* lines 451-453
GetAssets == FetchWithCache(<<"/assets">>, NoOptions, FALSE)

\* lines 458-460
GetAsset(id) == FetchWithCache(<<"/assets/", id>>, NoOptions, FALSE)

\* lines 465-472
GetPriceHistory(id, interval) ==
  FetchWithCache(<<"/assets/", id, "/history?interval=", interval>>, NoOptions, FALSE)

\* lines 477-490
CreateAlert(alert) == FetchWithCache(<<"/alerts">>, PostOptions(alert), TRUE)

\* lines 495-503
GetAlerts == FetchWithCache(<<"/alerts">>, NoOptions, FALSE)

\* lines 508-514
DeleteAlert(id) == FetchWithCache(<<"/alerts/", id>>, DeleteOptions, TRUE)

Without(seq, n) == SubSeq(seq, 1, n - 1) \o SubSeq(seq, n + 1, Len(seq))

\* lines 412-436: the response of request n is ok and its body parses
RespondOk(n, data) ==
  /\ n \in 1..Len(requests)
  /\ cache' = ((requests[n].cacheKey :> [data |-> data, expiry |-> now + cacheTTL])
                 @@ cache)
  /\ apiResponse' = [skipCache |-> requests[n].skipCache,
                     cacheKey |-> requests[n].cacheKey,
                     data |-> <<data>>, success |-> TRUE, cached |-> <<FALSE>>]
  /\ requests' = Without(requests, n)
  /\ UNCHANGED <<cacheTTL, now>>
  /\ UNCHANGED aggregatorVars
  /\ UNCHANGED matcherVars
  /\ UNCHANGED pureVars

\* lines 420-422, 438-445: fetch rejects, the status is not ok, or the body
\* does not parse; the catch block returns a failure
RespondError(n) ==
  /\ n \in 1..Len(requests)
  /\ apiResponse' = [skipCache |-> requests[n].skipCache,
                     cacheKey |-> requests[n].cacheKey,
                     data |-> <<>>, success |-> FALSE, cached |-> <<>>]
  /\ requests' = Without(requests, n)
  /\ UNCHANGED <<cache, cacheTTL, now>>
  /\ UNCHANGED aggregatorVars
  /\ UNCHANGED matcherVars
  /\ UNCHANGED pureVars

\* lines 519-521
ClearCache ==
  /\ cache' = <<>>
  /\ UNCHANGED <<cacheTTL, now, requests, apiResponse>>
  /\ UNCHANGED aggregatorVars
  /\ UNCHANGED matcherVars
  /\ UNCHANGED pureVars

\* lines 526-528
SetCacheTTL(milliseconds) ==
  /\ cacheTTL' = milliseconds
  /\ UNCHANGED <<cache, now, requests, apiResponse>>
  /\ UNCHANGED aggregatorVars
  /\ UNCHANGED matcherVars
  /\ UNCHANGED pureVars

\* Date.now() advances
Tick ==
  /\ now < MaxTicks * ClockStep
  /\ now' = now + ClockStep
  /\ UNCHANGED <<cache, cacheTTL, requests, apiResponse>>
  /\ UNCHANGED aggregatorVars
  /\ UNCHANGED matcherVars
  /\ UNCHANGED pureVars

ApiInit == AggregatorInit /\ MatcherIdle /\ PureIdle /\ ApiIdle

ApiNext ==
  \/ GetAssets
  \/ \E id \in ApiIds : GetAsset(id)
  \/ \E id \in ApiIds : \E interval \in Intervals : GetPriceHistory(id, interval)
  \/ \E alert \in Alerts : CreateAlert(alert)
  \/ GetAlerts
  \/ \E id \in ApiIds : DeleteAlert(id)
  \/ \E n \in 1..Len(requests) : \E data \in Payloads : RespondOk(n, data)
  \/ \E n \in 1..Len(requests) : RespondError(n)
  \/ ClearCache
  \/ \E milliseconds \in TTLs : SetCacheTTL(milliseconds)
  \/ Tick

SpecApi == ApiInit /\ [][ApiNext]_vars

----------------------------------------------------------------------------
(* Properties of findMatches                                               *)

Positions == 1..Len(products)

NameAt(p) == products[p].name

Group(k) == matches[k].value

Seed(k) == Group(k)[1]

\* the places <<k, m>> of the returned mapping that hold position p
PlacesOf(p) ==
  {km \in UNION {{<<k, m>> : m \in 1..Len(Group(k))} : k \in 1..Len(matches)} :
     Group(km[1])[km[2]] = p}

InGroup(p, k) == \E m \in 1..Len(Group(k)) : Group(k)[m] = p

\* C5: findMatches returns a partition of its input: every input position
\* is in exactly one group of the returned mapping, at every threshold.
C5_Partition ==
  matcherPc = "returned" => \A p \in Positions : Cardinality(PlacesOf(p)) = 1

\* the greedy clustering stated on its own: p is a seed exactly when no
\* earlier seed is within the threshold of it
RECURSIVE RefIsSeed(_)
RefIsSeed(p) ==
  \A s \in 1..(p - 1) :
    RefIsSeed(s) => calculateSimilarity(NameAt(s), NameAt(p)) < threshold

RefAnchors(p) ==
  {s \in 1..(p - 1) :
     RefIsSeed(s) /\ calculateSimilarity(NameAt(s), NameAt(p)) >= threshold}

RefEarliestSeed(p) == CHOOSE s \in RefAnchors(p) : \A t \in RefAnchors(p) : s <= t

\* C6: in input order, a record opens a group exactly when no earlier seed
\* has similarity >= threshold with it; otherwise it is a non-seed member of
\* the group of the earliest seed whose similarity with it is >= threshold.
C6_GreedyAnchor ==
  /\ (matcherPc = "loop" /\ i <= Len(products)) =>
       ((i \notin processed) <=> RefIsSeed(i))
  /\ matcherPc = "returned" =>
       \A p \in Positions :
         ~RefIsSeed(p) =>
           \E k \in 1..Len(matches) :
             /\ Seed(k) = RefEarliestSeed(p)
             /\ \E m \in 2..Len(Group(k)) : Group(k)[m] = p

C6_Witness ==
  /\ matcherPc = "returned"
  /\ \E p, q \in Positions :
       /\ 1 < p /\ p < q
       /\ RefIsSeed(p)
       /\ ~RefIsSeed(q)
       /\ RefEarliestSeed(q) = p
       /\ \E k \in 1..Len(matches) : Seed(k) = p /\ InGroup(q, k)

\* C7: every non-seed member of a returned group has similarity >= threshold
\* to the group's seed, and a record within the threshold of a non-seed
\* member but below it for the seed is not in the group.
C7_NonTransitive ==
  matcherPc = "returned" =>
    \A k \in 1..Len(matches) :
      /\ \A m \in 2..Len(Group(k)) :
           calculateSimilarity(NameAt(Seed(k)), NameAt(Group(k)[m])) >= threshold
      /\ \A p \in Positions :
           (/\ \E m \in 2..Len(Group(k)) :
                 calculateSimilarity(NameAt(Group(k)[m]), NameAt(p)) >= threshold
            /\ calculateSimilarity(NameAt(Seed(k)), NameAt(p)) < threshold)
           => ~InGroup(p, k)

C7_Witness ==
  /\ matcherPc = "returned"
  /\ \E k \in 1..Len(matches) : \E p \in Positions :
       /\ \E m \in 2..Len(Group(k)) :
            calculateSimilarity(NameAt(Group(k)[m]), NameAt(p)) >= threshold
       /\ calculateSimilarity(NameAt(Seed(k)), NameAt(p)) < threshold
       /\ ~InGroup(p, k)

\* C8: every returned group is keyed by the unmodified name of its seed, its
\* first member, and the groups are enumerated in the input order of their
\* seeds.
C8_KeyedInDiscoveryOrder ==
  matcherPc = "returned" =>
    /\ \A k \in 1..Len(matches) : matches[k].key = NameAt(Seed(k))
    /\ \A k1, k2 \in 1..Len(matches) : k1 < k2 => Seed(k1) < Seed(k2)

\* C9: at threshold 100 two records are in the same group only if their
\* names normalize to the same string, whatever the length of the names.
C9_ExactOnly ==
  (matcherPc = "returned" /\ threshold = 100) =>
    \A k \in 1..Len(matches) : \A m1, m2 \in 1..Len(Group(k)) :
      normalizeText(NameAt(Group(k)[m1])) = normalizeText(NameAt(Group(k)[m2]))

\* C10: for the names "Bitcoin", "Bitcoin Cash", "BitCoin" and threshold 85
\* the similarities are 64 and 100 and the result is "Bitcoin" ->
\* [Bitcoin, BitCoin] followed by "Bitcoin Cash" -> [Bitcoin Cash].
C10_BitcoinExample ==
  (/\ matcherPc = "returned"
   /\ threshold = 85
   /\ [p \in Positions |-> NameAt(p)] = <<Bitcoin, BitcoinCash, BitCoin>>) =>
    /\ calculateSimilarity(Bitcoin, BitcoinCash) = 64
    /\ calculateSimilarity(Bitcoin, BitCoin) = 100
    /\ matches = <<[key |-> Bitcoin, value |-> <<1, 3>>],
                   [key |-> BitcoinCash, value |-> <<2>>]>>

C10_Witness ==
  /\ matcherPc = "returned"
  /\ threshold = 85
  /\ [p \in Positions |-> NameAt(p)] = <<Bitcoin, BitcoinCash, BitCoin>>
  /\ Len(matches) = 2

----------------------------------------------------------------------------
(* Properties of fetchAllSources and aggregateData                         *)

TaskIds == 1..Len(tasks)

\* what adapter k contributed: its records, or nothing when its fetch failed
Emitted(k) == IF tasks[k].fetch = "resolved" THEN tasks[k].data ELSE <<>>

Occurrences(r, recs) == Cardinality({p \in 1..Len(recs) : recs[p] = r})

AllFeedRecords == UNION {FeedRecords(a) : a \in Adapters}

RECURSIVE EmittedCount(_, _)
EmittedCount(r, k) ==
  IF k = 0 THEN 0 ELSE EmittedCount(r, k - 1) + Occurrences(r, Emitted(k))

\* the number of records contributed by the adapters before position k
RECURSIVE Offset(_)
Offset(k) == IF k <= 1 THEN 0 ELSE Offset(k - 1) + Len(Emitted(k - 1))

\* C1: fetchAllSources() never throws, whichever adapters fail, and returns
\* exactly the records of the adapters whose fetch succeeded, a failed
\* adapter contributing nothing.
C1_NeverFails ==
  /\ callState # "threw"
  /\ callState = "returned" =>
       /\ Len(rawData) = Offset(Len(tasks) + 1)
       /\ \A r \in AllFeedRecords :
            Occurrences(r, rawData) = EmittedCount(r, Len(tasks))
       /\ \A p \in 1..Len(rawData) : rawData[p] \in AllFeedRecords

C1_Witness ==
  /\ callState = "returned"
  /\ call = "fetchAllSources"
  /\ \E k1, k2 \in TaskIds :
       /\ tasks[k1].fetch = "rejected"
       /\ tasks[k2].fetch = "resolved"
       /\ tasks[k2].data # <<>>
       /\ rawData = tasks[k2].data

\* C2: whatever the order in which the fetches complete, the returned
\* sequence is the adapters' records in registration order, each adapter's
\* records in the order it emitted them.
C2_RegistrationOrder ==
  callState = "returned" =>
    \A k \in TaskIds :
      SubSeq(rawData, Offset(k) + 1, Offset(k) + Len(Emitted(k))) = Emitted(k)

C2_Witness ==
  /\ callState = "returned"
  /\ Len(tasks) = 2
  /\ settleOrder = <<2, 1>>
  /\ Len(tasks[1].data) = 2
  /\ Len(tasks[2].data) = 1
  /\ tasks[1].source # tasks[2].source
  /\ rawData = tasks[1].data \o tasks[2].data

\* C3: the call does not end before every adapter's fetch has settled, a
\* failed fetch leaves the promises of the pending siblings pending, and the
\* records of every sibling that succeeds are in the result.
C3_JoinAll ==
  /\ callState \in {"returned", "threw"} =>
       /\ callState = "returned"
       /\ Len(settleOrder) = Len(tasks)
       /\ \A k \in TaskIds : tasks[k].fetch # "pending"
  /\ callState = "awaiting" =>
       \A k \in TaskIds : tasks[k].fetch = "pending" => tasks[k].state = "pending"
  /\ callState = "returned" =>
       \A k \in TaskIds : \A m \in 1..Len(tasks[k].data) :
         tasks[k].fetch = "resolved" =>
           \E p \in 1..Len(rawData) : rawData[p] = tasks[k].data[m]

C3_Witness ==
  /\ callState = "returned"
  /\ Len(tasks) = 2
  /\ tasks[settleOrder[1]].fetch = "rejected"
  /\ tasks[settleOrder[2]].fetch = "resolved"
  /\ rawData = tasks[settleOrder[2]].data
  /\ rawData # <<>>

\* C4: aggregateData() never throws on account of an adapter, and over no
\* adapters, or over adapters that all fail, it returns the empty sequence.
C4_AggregateNeverThrows ==
  (call = "aggregateData" /\ callState \in {"returned", "threw"}) =>
    /\ callState = "returned"
    /\ (\A k \in TaskIds : tasks[k].fetch = "rejected") => normalized = <<>>

C4_Witness ==
  /\ call = "aggregateData"
  /\ callState = "returned"
  /\ Len(tasks) = 2
  /\ \A k \in TaskIds : tasks[k].fetch = "rejected"
  /\ normalized = <<>>

----------------------------------------------------------------------------
(* Properties of calculateSimilarity                                       *)

\* lowercase, every character outside [a-z0-9] removed
RefNormalize(text) == SelectSeq(toLowerCase(text), IsAlnum)

\* the unit-cost edit distance by its recurrence
RECURSIVE RefLevenshtein(_, _)
RefLevenshtein(a, b) ==
  IF a = <<>> THEN Len(b)
  ELSE IF b = <<>> THEN Len(a)
  ELSE LET del == RefLevenshtein(Tail(a), b) + 1
           ins == RefLevenshtein(a, Tail(b)) + 1
           sub == RefLevenshtein(Tail(a), Tail(b)) + (IF Head(a) = Head(b) THEN 0 ELSE 1)
       IN IF del <= ins /\ del <= sub THEN del
          ELSE IF ins <= sub THEN ins ELSE sub

\* the integer nearest to 100 * (m - d) / m, a tie going up
RefRound(m, d) ==
  CHOOSE r \in 0..100 :
    /\ 2 * m * r <= 200 * (m - d) + m
    /\ 200 * (m - d) + m < 2 * m * (r + 1)

\* C11: similarity is symmetric: similarity(a, b) = similarity(b, a).
C11_Symmetric ==
  (purePc = "returned" /\ simResult # <<>>) =>
    simResult[1] = calculateSimilarity(simName2, simName1)

C11_Witness ==
  /\ purePc = "returned"
  /\ simResult # <<>>
  /\ Len(RefNormalize(simName1)) < Len(RefNormalize(simName2))
  /\ simResult[1] > 0
  /\ simResult[1] < 100

\* C12: similarity is 100 whenever the two names normalize to the same
\* string, whatever their case and spacing; in particular similarity(x, x).
C12_EqualNormalized ==
  (purePc = "returned" /\ simResult # <<>>
     /\ RefNormalize(simName1) = RefNormalize(simName2)) =>
    simResult = <<100>>

C12_Witness ==
  /\ purePc = "returned"
  /\ simName1 = <<"A", " ", "b">>
  /\ simName2 = <<"a", "b">>
  /\ simResult = <<100>>

\* C13: similarity is an integer between 0 and 100.
C13_Range ==
  (purePc = "returned" /\ simResult # <<>>) => simResult[1] \in 0..100

C13_Witness ==
  /\ purePc = "returned"
  /\ simResult = <<0>>
  /\ RefNormalize(simName1) # <<>>
  /\ RefNormalize(simName2) # <<>>

\* C14: when the normalizations differ, the table of levenshteinDistance
\* holds the unit-cost edit distance of the normalized strings and the
\* similarity is round((maxLen - distance) / maxLen * 100).
C14_Formula ==
  (purePc = "returned" /\ simResult # <<>>
     /\ RefNormalize(simName1) # RefNormalize(simName2)) =>
    LET n1 == RefNormalize(simName1)
        n2 == RefNormalize(simName2)
        maxLen == IF Len(n1) >= Len(n2) THEN Len(n1) ELSE Len(n2)
    IN /\ simDistance = <<RefLevenshtein(n1, n2)>>
       /\ simResult = <<RefRound(maxLen, RefLevenshtein(n1, n2))>>

C14_Witness ==
  /\ purePc = "returned"
  /\ simDistance = <<2>>
  /\ simResult = <<33>>
  /\ Len(RefNormalize(simName1)) # Len(RefNormalize(simName2))

----------------------------------------------------------------------------
(* Properties of the fold of aggregateData                                 *)

AggregateReturned == call = "aggregateData" /\ callState = "returned"

VolumesOf(group) == [m \in 1..Len(group) |-> rawData[group[m]].volume]

MarketCapsOf(group) == [m \in 1..Len(group) |-> rawData[group[m]].marketCap]

\* the sum of the values that are present
RECURSIVE RefPresentSum(_)
RefPresentSum(opts) ==
  IF opts = <<>> THEN 0
  ELSE LET n == Len(opts)
       IN RefPresentSum(SubSeq(opts, 1, n - 1))
            + (IF opts[n] = <<>> THEN 0 ELSE opts[n][1])

\* C16: an asset's volume is the sum of its members' volumes and its market
\* cap the sum of their market caps, a missing value counting as 0; volumes
\* 10 and 20 give 30.
C16_Totals ==
  AggregateReturned =>
    LET found == findMatches(rawData, 80)
    IN \A k \in 1..Len(normalized) :
         /\ normalized[k].volume = RefPresentSum(VolumesOf(found[k].value))
         /\ normalized[k].marketCap = RefPresentSum(MarketCapsOf(found[k].value))
         /\ VolumesOf(found[k].value) = << <<10>>, <<20>> >> =>
              normalized[k].volume = 30

C16_Witness ==
  /\ AggregateReturned
  /\ Len(rawData) = 2
  /\ VolumesOf(<<1, 2>>) = << <<10>>, <<20>> >>
  /\ MarketCapsOf(<<1, 2>>) = << <<500>>, <<>> >>
  /\ Len(normalized) = 1
  /\ normalized[1].volume = 30
  /\ normalized[1].marketCap = 500

\* the rate as the table has it: the entry of the currency, 1 without one
RefRate(currency, rates) ==
  IF currency \in DOMAIN rates THEN rates[currency] ELSE 1

\* price / rate; a positive price over 0 is Infinity, written <<1, 0>>
RefQuotient(price, rate) == IF rate = 0 THEN <<1, 0>> ELSE Rat(price, rate)

\* the unweighted mean; Infinity when a term is
RefMean(qs) ==
  IF \E n \in 1..Len(qs) : qs[n][2] = 0 THEN <<1, 0>>
  ELSE RatDivInt(RatSum(qs), Len(qs))

\* C17: an asset's price is the unweighted mean over its members of
\* price / rate(currency), the rate being the table's entry for the currency
\* and 1 when the table has none.
C17_MeanOfConverted ==
  [][(call = "aggregateData" /\ callState = "awaiting" /\ callState' = "returned") =>
       LET found == findMatches(rawData', 80)
       IN \A k \in 1..Len(found) :
            normalized'[k].price =
              RefMean([m \in 1..Len(found[k].value) |->
                         RefQuotient(rawData'[found[k].value[m]].price,
                                     RefRate(rawData'[found[k].value[m]].currency,
                                             exchangeRates))])]_vars

\* the adapters whose fetch put a record into a group: task t contributed
\* the positions Offset(t) + 1 .. Offset(t) + Len(Emitted(t))
Contributors(group) ==
  {tasks[t].source :
     t \in {t \in TaskIds :
              \E m \in 1..Len(group) :
                /\ Offset(t) < group[m]
                /\ group[m] <= Offset(t) + Len(Emitted(t))}}

\* C18: an asset's sources is not empty, holds no name twice, and holds
\* exactly the names of the adapters that contributed a record to its group.
C18_Sources ==
  AggregateReturned =>
    LET found == findMatches(rawData, 80)
    IN \A k \in 1..Len(normalized) :
         LET s == normalized[k].sources
         IN /\ s # <<>>
            /\ \A n1, n2 \in 1..Len(s) : n1 # n2 => s[n1] # s[n2]
            /\ {s[n] : n \in 1..Len(s)} = Contributors(found[k].value)

C18_Witness ==
  /\ AggregateReturned
  /\ Len(tasks) = 2
  /\ tasks[1].data = tasks[2].data
  /\ Len(rawData) = 2
  /\ Len(normalized) = 1
  /\ Contributors(<<1, 2>>) = {"feedA"}
  /\ normalized[1].sources = <<"feedA">>

----------------------------------------------------------------------------
(* Properties of generateId                                                *)

\* the runs of [a-z0-9] of the text joined by "-": gap tells that characters
\* outside [a-z0-9] have been passed since the last one kept
RECURSIVE RefJoinRuns(_, _, _)
RefJoinRuns(rest, out, gap) ==
  IF rest = <<>> THEN out
  ELSE IF IsAlnum(Head(rest))
  THEN RefJoinRuns(Tail(rest),
                   (IF gap /\ out # <<>> THEN Append(out, "-") ELSE out)
                     \o <<Head(rest)>>,
                   FALSE)
  ELSE RefJoinRuns(Tail(rest), out, TRUE)

RefSlug(name) == RefJoinRuns(toLowerCase(name), <<>>, FALSE)

BinanceCoinId ==
  <<"b","i","n","a","n","c","e","-","c","o","i","n","-","b","n","b">>

----------------------------------------------------------------------------
(* Properties of registerSource                                            *)

TimesRegistered(a) == Cardinality({k \in 1..Len(sources) : sources[k] = a})

\* C20: registerSource appends its argument whether or not it is in the list
\* already, so the list is the registered adapters in call order; a call
\* invokes the fetch of an adapter as many times as it is registered, and
\* every one of these fetches contributes its records to the result.
C20_RegisterAppends ==
  /\ Len(sources) < MaxSources =>
       \A a \in Adapters :
         ENABLED (RegisterSource(a) /\ sources' = Append(sources, a))
  /\ callState # "awaiting" =>
       ENABLED (/\ CallFetchAllSources
                /\ \A a \in Adapters :
                     Cardinality({k \in 1..Len(tasks') : tasks'[k].source = a})
                       = TimesRegistered(a))
  /\ Len(tasks) <= Len(sources)
  /\ \A k \in TaskIds : tasks[k].source = sources[k]
  /\ callState = "returned" =>
       \A k \in TaskIds :
         tasks[k].fetch = "resolved" =>
           SubSeq(rawData, Offset(k) + 1, Offset(k + 1)) = tasks[k].data

C20_Witness ==
  /\ callState = "returned"
  /\ sources = <<"feedA", "feedA">>
  /\ Len(tasks) = 2
  /\ tasks[1].fetch = "resolved"
  /\ tasks[2].fetch = "resolved"
  /\ Len(tasks[1].data) = 2
  /\ tasks[2].data = tasks[1].data
  /\ rawData = tasks[1].data \o tasks[1].data

----------------------------------------------------------------------------
(* Properties of updateExchangeRates                                       *)

\* the table after a call with the mapping rates, stated on its own: a
\* currency of the mapping has the mapping's rate, every other currency the
\* rate it had
RefMerged(rates) ==
  [c \in (DOMAIN rates) \cup (DOMAIN exchangeRates) |->
     IF c \in DOMAIN rates THEN rates[c] ELSE exchangeRates[c]]

\* C21: updateExchangeRates merges its mapping into the table: a currency of
\* the mapping takes the mapping's rate (USD included), every other currency
\* keeps its rate, and the list of adapters is unchanged.
C21_RatesMerge ==
  \A rates \in RateUpdates :
    /\ ENABLED (/\ UpdateExchangeRates(rates)
                /\ exchangeRates' = RefMerged(rates)
                /\ sources' = sources)
    /\ ~ ENABLED (/\ UpdateExchangeRates(rates)
                  /\ (exchangeRates' # RefMerged(rates) \/ sources' # sources))

C21_Witness ==
  /\ exchangeRates = ("USD" :> 2 @@ "EUR" :> 2)
  /\ sources # <<>>

----------------------------------------------------------------------------
(* Properties of a cycle in flight                                         *)

\* C23: a cycle fetches from the adapters registered when it started: a
\* registerSource while its fetches are in flight starts no fetch in it and
\* adds no record to its result; the adapter is fetched by the next cycle.
C23_RegistrySnapshot ==
  /\ (callState = "awaiting" /\ Len(sources) < MaxSources) =>
       \A a \in Adapters :
         /\ ENABLED (RegisterSource(a) /\ tasks' = tasks)
         /\ ~ ENABLED (RegisterSource(a) /\ tasks' # tasks)
  /\ (callState = "returned" /\ Len(sources) > Len(tasks)) =>
       /\ Len(rawData) = Offset(Len(tasks) + 1)
       /\ \A p \in 1..Len(rawData) :
            \E k \in TaskIds : Offset(k) < p /\ p <= Offset(k) + Len(Emitted(k))
  /\ callState # "awaiting" =>
       ENABLED (/\ CallAggregateData
                /\ Len(tasks') = Len(sources)
                /\ \A k \in 1..Len(sources) :
                     tasks'[k].source = sources[k] /\ tasks'[k].fetch = "pending")

C23_Witness ==
  /\ call = "aggregateData"
  /\ callState = "awaiting"
  /\ Len(tasks) = 1
  /\ tasks[1].fetch = "resolved"
  /\ sources = <<"feedA", "feedB">>

----------------------------------------------------------------------------
(* Properties of the assets of one cycle                                   *)

\* C26: the ids of the assets of one cycle are pairwise distinct.
C26_DistinctIds ==
  AggregateReturned =>
    \A k1, k2 \in 1..Len(normalized) :
      k1 # k2 => normalized[k1].id # normalized[k2].id

C26_Witness ==
  /\ AggregateReturned
  /\ Len(normalized) = 2
  /\ \E p, q \in 1..Len(rawData) :
       /\ rawData[p].name # rawData[q].name
       /\ RefSlug(rawData[p].name) = RefSlug(rawData[q].name)

\* C29: the volumes of the assets of a cycle add up to the volumes of the
\* records the cycle fetched, a missing volume counting as 0, and likewise
\* the market caps: no record is dropped or counted twice.
C29_TotalsConserved ==
  AggregateReturned =>
    /\ RefPresentSum([k \in 1..Len(normalized) |-> <<normalized[k].volume>>])
         = RefPresentSum([p \in 1..Len(rawData) |-> rawData[p].volume])
    /\ RefPresentSum([k \in 1..Len(normalized) |-> <<normalized[k].marketCap>>])
         = RefPresentSum([p \in 1..Len(rawData) |-> rawData[p].marketCap])

C29_Witness ==
  /\ AggregateReturned
  /\ Len(rawData) = 4
  /\ Len(normalized) = 3
  /\ RefPresentSum([p \in 1..Len(rawData) |-> rawData[p].volume]) = 30
  /\ RefPresentSum([p \in 1..Len(rawData) |-> rawData[p].marketCap]) = 1200

----------------------------------------------------------------------------
(* Further properties of findMatches                                       *)

\* C27: the seeds of a result of findMatches are pairwise dissimilar: the
\* similarity of the seed names of two distinct groups is below the
\* threshold, and with a threshold of at most 100 no two seeds have one name.
C27_SeedsDissimilar ==
  matcherPc = "returned" =>
    \A k1, k2 \in 1..Len(matches) :
      k1 # k2 =>
        /\ calculateSimilarity(NameAt(Seed(k1)), NameAt(Seed(k2))) < threshold
        /\ threshold <= 100 => NameAt(Seed(k1)) # NameAt(Seed(k2))

C27_Witness ==
  /\ matcherPc = "returned"
  /\ threshold = 50
  /\ Len(matches) = 2
  /\ \E k \in 1..Len(matches) : Len(Group(k)) = 2
  /\ calculateSimilarity(NameAt(Seed(1)), NameAt(Seed(2))) > 0

EmptyNamed == {p \in Positions : RefNormalize(NameAt(p)) = <<>>}

\* C28: two names that both normalize to the empty string have similarity
\* 100, never the 0 of the maxLength = 0 branch, and findMatches puts all
\* records of such names into one group at every threshold up to 100.
C28_EmptyNamesMerge ==
  matcherPc = "returned" =>
    /\ \A p, q \in EmptyNamed :
         calculateSimilarity(NameAt(p), NameAt(q)) = 100
    /\ threshold <= 100 =>
         \A p, q \in EmptyNamed : \E k \in 1..Len(matches) :
           InGroup(p, k) /\ InGroup(q, k)

C28_Witness ==
  /\ matcherPc = "returned"
  /\ threshold = 100
  /\ [p \in Positions |-> NameAt(p)] = <<NameBang, NameAA, NameDashes>>
  /\ matches[1] = [key |-> NameBang, value |-> <<1, 3>>]

----------------------------------------------------------------------------
(* Termination of a cycle                                                  *)

Pending(k) ==
  callState = "awaiting" /\ k <= Len(tasks) /\ tasks[k].fetch = "pending"

\* C24: the call returns if every fetch eventually settles, there being no
\* timeout or cancellation, and it does not return while a fetch is
\* unsettled, however many of the others have completed or failed.
C24_ReturnsOnceSettled ==
  /\ (\A k \in 1..MaxSources : []<>(~Pending(k))) =>
       ((callState = "awaiting") ~> (callState = "returned"))
  /\ [](callState # "awaiting" => \A k \in TaskIds : tasks[k].fetch # "pending")

C24_Witness ==
  /\ call = "aggregateData"
  /\ callState = "awaiting"
  /\ Len(tasks) = 2
  /\ tasks[1].fetch = "rejected"
  /\ tasks[2].fetch = "pending"
  /\ ~ ENABLED Resume

----------------------------------------------------------------------------
\* the records of the adapters 1..k in the order of the registry, a failed
\* adapter contributing nothing
RECURSIVE RefRecords(_)
RefRecords(k) == IF k = 0 THEN <<>> ELSE RefRecords(k - 1) \o Emitted(k)

\* a step of the running call: its start, the settling of a fetch, its return
CycleStep ==
  \/ call' # call
  \/ callState' # callState
  \/ tasks' # tasks
  \/ settleOrder' # settleOrder
  \/ rawData' # rawData
  \/ normalized' # normalized

\* C25: aggregateData() and fetchAllSources() are stateless: no step of a
\* call changes the adapter list or the rate table, and what a call returns
\* is a function of the adapters' outputs in the order of the registry and
\* of the rate table alone, whatever was returned before and in whatever
\* order the fetches settled.
C25_Stateless ==
  [][/\ CycleStep => (sources' = sources /\ exchangeRates' = exchangeRates)
     /\ (callState = "awaiting" /\ callState' = "returned") =>
          /\ rawData' = RefRecords(Len(tasks))
          /\ normalized' = IF call = "aggregateData"
                           THEN FoldMatches(RefRecords(Len(tasks)), exchangeRates)
                           ELSE <<>>]_vars

\* a cycle over two adapters, the second settling first, has returned
\* assets under a rate table that was updated
C25_Witness ==
  /\ AggregateReturned
  /\ sources = <<"feedA", "feedB">>
  /\ Len(tasks) = 2
  /\ settleOrder = <<2, 1>>
  /\ Len(normalized) = 2
  /\ exchangeRates = ("USD" :> 2 @@ "EUR" :> 2)

----------------------------------------------------------------------------
\* what the fetch of task k may still contribute: its records once it has
\* settled, any emission of its adapter (none on failure) while it is pending
Outcomes(k) ==
  IF tasks[k].fetch = "pending"
  THEN Emissions(tasks[k].source)
  ELSE {Emitted(k)}

\* the ways the fetches of the running cycle may end
Completions ==
  {f \in [TaskIds -> UNION {Outcomes(k) : k \in TaskIds}] :
     \A k \in TaskIds : f[k] \in Outcomes(k)}

RECURSIVE RefJoined(_, _)
RefJoined(f, k) == IF k = 0 THEN <<>> ELSE RefJoined(f, k - 1) \o f[k]

\* the prices aggregateData emits for the records recs under the table rates
PricesUnder(recs, rates) ==
  LET assets == FoldMatches(recs, rates)
  IN [k \in 1..Len(assets) |-> assets[k].price]

\* C22: a cycle converts prices with the rate table as it was when the
\* cycle started: a change of the table while aggregateData() awaits its
\* fetches changes the prices of none of the ways the cycle may end.
C22_RatesSnapshot ==
  [][(call = "aggregateData" /\ callState = "awaiting"
        /\ exchangeRates' # exchangeRates) =>
       \A f \in Completions :
          PricesUnder(RefJoined(f, Len(tasks)), exchangeRates')
            = PricesUnder(RefJoined(f, Len(tasks)), exchangeRates)]_vars

----------------------------------------------------------------------------
\* the cache keys of the requests that do not mutate
ReadKeys ==
  {CacheKey(<<"/assets">>, NoOptions), CacheKey(<<"/alerts">>, NoOptions)}
    \cup {CacheKey(<<"/assets/", id>>, NoOptions) : id \in ApiIds}
    \cup {CacheKey(<<"/assets/", id, "/history?interval=", interval>>, NoOptions) :
            id \in ApiIds, interval \in Intervals}

\* C30: createAlert and deleteAlert skip the cache: the response they
\* return is never a cached one, and the cache holds entries only for the
\* requests that do not mutate.
C30_MutationsSkipCache ==
  /\ (apiResponse # <<>> /\ apiResponse.skipCache) => apiResponse.cached # <<TRUE>>
  /\ DOMAIN cache \subseteq ReadKeys

============================================================================
